---- MODULE Spec2Model ----
(***************************************************************************)
(* Model of src/main.py: the Book record, the Library store (load_data,    *)
(* save_data, add_book, remove_book, search_books, display_books,          *)
(* update_status) and the menu loop of main().                             *)
(*                                                                         *)
(* Text is a sequence of one-character strings, so that str.lower() and    *)
(* the substring test `in` are computed character by character.  The two   *)
(* status literals of the source are Cyrillic; they are transliterated     *)
(* here ("v nalichii", "vydana") because the module is ASCII.              *)
(*                                                                         *)
(* The persisted file is modelled by the JSON document it holds: a         *)
(* sequence of objects with the keys id, title, author, year, status.      *)
(* json.dump followed by json.load is exact on integers and strings, so    *)
(* what can be lost between memory and file is decided by to_dict,         *)
(* save_data and load_data, which are modelled as written.                 *)
(***************************************************************************)
EXTENDS Integers, Sequences, FiniteSets, TLC

VARIABLES
    books,      \* Library.books: the in-memory list of Book objects
    file,       \* content of DATA_FILE: the sequence of dicts last written
    pc,         \* "menu": main() is at its prompt; "exited": choice 6;
                \* "crashed": an exception left main()
    book_id,    \* main()'s local book_id: <<>> while unbound, <<n>> once bound
    cmd,        \* the menu command being served: [choice, numeric]
    out,        \* what the last store operation did and reported
    results,    \* the records the last search_books / display_books printed
    prev        \* <<id, wasMax>> when the operation before the last one was
                \* a successful remove_book of id, else <<>>

vars == <<books, file, pc, book_id, cmd, out, results, prev>>

----------------------------------------------------------------------------
(* Bounds of the model *)

MaxId == 3          \* add_book is not offered when it would assign a larger id

----------------------------------------------------------------------------
(* Text *)

Digits == <<"0", "1", "2", "3", "4", "5", "6", "7", "8", "9">>

\* str.lower() on one character of the model's alphabet
LowerChar(c) ==
    CASE c = "A" -> "a"
      [] c = "B" -> "b"
      [] c = "C" -> "c"
      [] OTHER -> c

\* str.lower()
Lower(s) == [i \in 1..Len(s) |-> LowerChar(s[i])]

\* the substring test: sub in s
Contains(sub, s) ==
    \E k \in 0..(Len(s) - Len(sub)) :
        \A j \in 1..Len(sub) : s[k + j] = sub[j]

RECURSIVE NatToStr(_)
NatToStr(n) ==
    IF n < 10 THEN <<Digits[n + 1]>>
    ELSE NatToStr(n \div 10) \o <<Digits[(n % 10) + 1]>>

\* str() of an int
IntToStr(n) == IF n < 0 THEN <<"-">> \o NatToStr(-n) ELSE NatToStr(n)

DigitValue(c) == CHOOSE d \in 0..9 : Digits[d + 1] = c

IsDigit(c) == \E d \in 0..9 : Digits[d + 1] = c

RECURSIVE DigitsValue(_)
DigitsValue(s) ==
    IF Len(s) = 0 THEN 0
    ELSE 10 * DigitsValue(SubSeq(s, 1, Len(s) - 1)) + DigitValue(s[Len(s)])

\* int(s) for s over the model's alphabet (no blanks, no underscores):
\* an optional sign followed by one or more digits; anything else raises
\* ValueError (ok = FALSE).
ParseInt(s) ==
    LET signed == Len(s) > 0 /\ s[1] \in {"-", "+"}
        body == IF signed THEN SubSeq(s, 2, Len(s)) ELSE s
        good == Len(body) > 0 /\ \A i \in 1..Len(body) : IsDigit(body[i])
    IN  [ok |-> good,
         val |-> IF ~good THEN 0
                 ELSE IF signed /\ s[1] = "-" THEN -DigitsValue(body)
                 ELSE DigitsValue(body)]

----------------------------------------------------------------------------
(* Book *)

Available == "v nalichii"
CheckedOut == "vydana"

StatusText(status) ==
    CASE status = Available -> <<"v", " ", "n", "a", "l", "i", "c", "h", "i", "i">>
      [] status = CheckedOut -> <<"v", "y", "d", "a", "n", "a">>
      [] OTHER -> <<"l", "o", "s", "t">>

\* Book.__init__
Book(id, title, author, year, status) ==
    [id |-> id, title |-> title, author |-> author, year |-> year,
     status |-> status]

\* to_dict with the status written as the default instead of book.status
to_dict_default_status(book) ==
    [id |-> book.id, title |-> book.title, author |-> book.author,
     year |-> book.year, status |-> Available]

\* Book.to_dict
to_dict(book) ==
    [id |-> book.id, title |-> book.title, author |-> book.author,
     year |-> book.year, status |-> book.status]

----------------------------------------------------------------------------
(* Library: pure parts *)

\* the list comprehension of load_data: status is not passed to Book(), so
\* every record is built with the default status
load_data(content) ==
    [i \in 1..Len(content) |->
        Book(content[i].id, content[i].title, content[i].author,
             content[i].year, Available)]

\* the document save_data writes
save_data(bs) == [i \in 1..Len(bs) |-> to_dict(bs[i])]

\* max() taken as the first id of the list
MaxOf_first(bs, default) == IF Len(bs) = 0 THEN default ELSE Head(bs).id

RECURSIVE MaxOf(_, _)
MaxOf(bs, default) ==
    IF Len(bs) = 0 THEN default
    ELSE IF Len(bs) = 1 THEN Head(bs).id
    ELSE LET m == MaxOf(Tail(bs), default)
         IN  IF Head(bs).id >= m THEN Head(bs).id ELSE m

\* the id taken from the number of records
NextId_len(bs) == Len(bs) + 1

\* max((book.id for book in self.books), default=0) + 1
NextId(bs) == MaxOf(bs, 0) + 1

\* the lookup without its id test: the first record, whatever id is asked
Find_first(bs, id) == IF Len(bs) > 0 THEN 1 ELSE 0

\* next((book for book in self.books if book.id == book_id), None):
\* the position of the first record with that id, 0 for None
Find(bs, id) ==
    IF \E i \in 1..Len(bs) : bs[i].id = id
    THEN CHOOSE i \in 1..Len(bs) :
            /\ bs[i].id = id
            /\ \A j \in 1..(i - 1) : bs[j].id # id
    ELSE 0

\* list.remove(book) for the book at position k
RemoveAt(bs, k) == SubSeq(bs, 1, k - 1) \o SubSeq(bs, k + 1, Len(bs))

\* the status test left out
ValidStatus_any(status) == TRUE

\* status in ["v nalichii", "vydana"]
ValidStatus(status) == status \in {Available, CheckedOut}

\* str(getattr(book, field, ""))
FieldText(book, field) ==
    CASE field = "title" -> book.title
      [] field = "author" -> book.author
      [] field = "year" -> IntToStr(book.year)
      [] field = "id" -> IntToStr(book.id)
      [] field = "status" -> StatusText(book.status)
      [] OTHER -> <<>>

\* query.lower() in str(getattr(book, field, "")).lower()
Matches(book, query, field) ==
    Contains(Lower(query), Lower(FieldText(book, field)))

\* [book for book in self.books if ...]
SearchResults(bs, query, field) ==
    SelectSeq(bs, LAMBDA b : Matches(b, query, field))

----------------------------------------------------------------------------
(* Inputs *)

\* (title, author) typed at the title and author prompts
TypedTexts ==
    {<<<<"A", "b">>, <<"b", "C">>>>,
     <<<<>>, <<"b", "C">>>>,
     <<<<"A", "b">>, <<>>>>}
YearInputs == {<<"1", "7">>, <<"-", "1">>, <<"x">>}     \* typed at the year prompt
IdInputs == {IntToStr(n) : n \in 1..MaxId} \cup {<<"x">>}   \* typed at the ID prompt
StatusInputs == {Available, CheckedOut, "lost"}
Fields == {"title", "author", "year", "id", "status", "genre"}
Queries == {<<>>, <<"a", "B">>, <<"1">>}
\* (title, author, year) passed to add_book by a caller other than main()
CallArgs ==
    {<<<<"A", "b">>, <<"b", "C">>, 17>>,
     <<<<>>, <<"b", "C">>, 17>>,
     <<<<"A", "b">>, <<>>, -1>>}
CallIds == 0..MaxId                                     \* ids passed by such a caller

----------------------------------------------------------------------------
(* Library: operations *)

NoOut ==
    [op |-> "none", res |-> "none", id |-> 0, saved |-> FALSE, arg |-> "",
     wasMax |-> FALSE, field |-> "", query |-> <<>>]

\* Library(): self.books = [] and then load_data()
Construct ==
    /\ books' = load_data(file)
    /\ pc' = "menu"
    /\ book_id' = <<>>
    /\ cmd' = [choice |-> "start", numeric |-> TRUE]
    /\ out' = [NoOut EXCEPT !.op = "load_data", !.res = "ok"]
    /\ results' = <<>>
    /\ prev' = <<>>
    /\ UNCHANGED file

Init ==
    /\ file = <<>>
    /\ books = load_data(file)
    /\ pc = "menu"
    /\ book_id = <<>>
    /\ cmd = [choice |-> "start", numeric |-> TRUE]
    /\ out = [NoOut EXCEPT !.op = "load_data", !.res = "ok"]
    /\ results = <<>>
    /\ prev = <<>>

\* bookkeeping of prev, done by every step of the store or the shell: it is
\* kept for an add_book that directly follows a successful remove_book
PrevStep ==
    prev' = IF out'.op = "add_book" /\ out.op = "remove_book" /\ out.res = "ok"
            THEN <<out.id, out.wasMax>> ELSE <<>>

\* self.save_data() as the last statement before the success message: the
\* write either succeeds (ok) or open()/write raises OSError, which no caller
\* in this file catches; the list has been changed to bs already.
SaveStep(bs, ok, report) ==
    /\ books' = bs
    /\ file' = IF ok THEN save_data(bs) ELSE file
    /\ pc' = IF ok THEN "menu" ELSE "crashed"
    /\ out' = [report EXCEPT !.res = IF ok THEN "ok" ELSE "StorageUnavailable",
                             !.saved = ok]

add_book(title, author, year) ==
    LET new_id == NextId(books)
        new_book == Book(new_id, title, author, year, Available)
    IN  /\ new_id <= MaxId
        /\ \E ok \in BOOLEAN :
              SaveStep(Append(books, new_book), ok,
                       [NoOut EXCEPT !.op = "add_book", !.id = new_id])
        /\ results' = <<>>

remove_book(id) ==
    LET k == Find(books, id)
    IN  /\ IF k # 0
           THEN \E ok \in BOOLEAN :
                   SaveStep(RemoveAt(books, k), ok,
                            [NoOut EXCEPT !.op = "remove_book", !.id = id,
                                          !.wasMax =
                                             \A i \in 1..Len(books) :
                                                books[i].id <= id])
           ELSE /\ out' = [NoOut EXCEPT !.op = "remove_book", !.id = id,
                                        !.res = "NotFound"]
                /\ pc' = "menu"
                /\ UNCHANGED <<books, file>>
        /\ results' = <<>>

update_status(id, status) ==
    LET k == Find(books, id)
        report == [NoOut EXCEPT !.op = "update_status", !.id = id,
                                !.arg = status]
    IN  /\ IF k # 0
           THEN IF ValidStatus(status)
                THEN \E ok \in BOOLEAN :
                        SaveStep([books EXCEPT ![k].status = status], ok, report)
                ELSE /\ out' = [report EXCEPT !.res = "InvalidInput"]
                     /\ pc' = "menu"
                     /\ UNCHANGED <<books, file>>
           ELSE /\ out' = [report EXCEPT !.res = "NotFound"]
                /\ pc' = "menu"
                /\ UNCHANGED <<books, file>>
        /\ results' = <<>>

search_books(query, field) ==
    /\ results' = SearchResults(books, query, field)
    /\ out' = [NoOut EXCEPT !.op = "search_books", !.res = "ok",
                            !.field = field, !.query = query]
    /\ pc' = "menu"
    /\ UNCHANGED <<books, file>>

display_books ==
    /\ results' = books
    /\ out' = [NoOut EXCEPT !.op = "display_books", !.res = "ok"]
    /\ pc' = "menu"
    /\ UNCHANGED <<books, file>>

----------------------------------------------------------------------------
(* main(): one action per menu choice *)

\* a command that ends in main(), without a store operation
Rejected(choice, res, nextpc) ==
    /\ cmd' = [choice |-> choice, numeric |-> FALSE]
    /\ out' = [NoOut EXCEPT !.res = res]
    /\ pc' = nextpc
    /\ results' = <<>>
    /\ UNCHANGED <<books, file>>

\* choice "1"
MenuAdd ==
    /\ pc = "menu"
    /\ \E texts \in TypedTexts, typed \in YearInputs :
          LET title == texts[1]
              author == texts[2]
              year == ParseInt(typed)
          IN  IF year.ok /\ year.val >= 0
              THEN /\ cmd' = [choice |-> "1", numeric |-> TRUE]
                   /\ add_book(title, author, year.val)
              ELSE Rejected("1", "InvalidInput", "menu")
    /\ UNCHANGED book_id
    /\ PrevStep

\* choice "2": int() is outside any try, so a ValueError leaves main()
MenuRemove ==
    /\ pc = "menu"
    /\ \E typed \in IdInputs :
          LET n == ParseInt(typed)
          IN  IF n.ok
              THEN /\ book_id' = <<n.val>>
                   /\ cmd' = [choice |-> "2", numeric |-> TRUE]
                   /\ remove_book(n.val)
              ELSE /\ Rejected("2", "ValueError", "crashed")
                   /\ UNCHANGED book_id
    /\ PrevStep

\* choice "3"
MenuSearch ==
    /\ pc = "menu"
    /\ \E field \in Fields, query \in Queries :
          search_books(query, field)
    /\ cmd' = [choice |-> "3", numeric |-> TRUE]
    /\ UNCHANGED book_id
    /\ PrevStep

\* choice "4"
MenuDisplay ==
    /\ pc = "menu"
    /\ display_books
    /\ cmd' = [choice |-> "4", numeric |-> TRUE]
    /\ UNCHANGED book_id
    /\ PrevStep

\* choice "5": the ValueError of int() is caught and reported, and control
\* falls through to the status prompt and to update_status(book_id, status)
\* with whatever book_id holds; an unbound book_id raises UnboundLocalError
MenuUpdate ==
    /\ pc = "menu"
    /\ \E typed \in IdInputs, status \in StatusInputs :
          LET n == ParseInt(typed)
          IN  IF n.ok
              THEN /\ book_id' = <<n.val>>
                   /\ cmd' = [choice |-> "5", numeric |-> TRUE]
                   /\ update_status(n.val, status)
              ELSE IF book_id = <<>>
              THEN /\ Rejected("5", "UnboundLocalError", "crashed")
                   /\ UNCHANGED book_id
              ELSE /\ cmd' = [choice |-> "5", numeric |-> FALSE]
                   /\ update_status(book_id[1], status)
                   /\ UNCHANGED book_id
    /\ PrevStep

\* choice "6"
MenuExit ==
    /\ pc = "menu"
    /\ cmd' = [choice |-> "6", numeric |-> TRUE]
    /\ out' = NoOut
    /\ pc' = "exited"
    /\ results' = <<>>
    /\ UNCHANGED <<books, file, book_id>>
    /\ PrevStep

\* any other choice
MenuOther ==
    /\ pc = "menu"
    /\ Rejected("other", "InvalidChoice", "menu")
    /\ UNCHANGED book_id
    /\ PrevStep

\* the program is run again after it has ended: main() builds a new Library
Restart ==
    /\ pc \in {"exited", "crashed"}
    /\ Construct

Next ==
    \/ MenuAdd
    \/ MenuRemove
    \/ MenuSearch
    \/ MenuDisplay
    \/ MenuUpdate
    \/ MenuExit
    \/ MenuOther
    \/ Restart

Spec == Init /\ [][Next]_vars

----------------------------------------------------------------------------
(* The Library used directly: its methods called with any arguments *)

CallAdd ==
    /\ pc = "menu"
    /\ \E args \in CallArgs : add_book(args[1], args[2], args[3])
    /\ cmd' = [choice |-> "call", numeric |-> TRUE]
    /\ UNCHANGED book_id
    /\ PrevStep

CallRemove ==
    /\ pc = "menu"
    /\ \E id \in CallIds : remove_book(id)
    /\ cmd' = [choice |-> "call", numeric |-> TRUE]
    /\ UNCHANGED book_id
    /\ PrevStep

CallUpdate ==
    /\ pc = "menu"
    /\ \E id \in CallIds, status \in StatusInputs : update_status(id, status)
    /\ cmd' = [choice |-> "call", numeric |-> TRUE]
    /\ UNCHANGED book_id
    /\ PrevStep

\* a new Library is built over the file, after an exception or at any time
CallLoad ==
    /\ pc \in {"menu", "crashed"}
    /\ Construct

StoreNext ==
    \/ CallAdd
    \/ CallRemove
    \/ CallUpdate
    \/ CallLoad

StoreSpec == Init /\ [][StoreNext]_vars

----------------------------------------------------------------------------
(* Properties *)

\* the serialization of the whole collection in its current order, written
\* out field by field
Serialization(bs) ==
    [i \in 1..Len(bs) |->
        [id |-> bs[i].id, title |-> bs[i].title, author |-> bs[i].author,
         year |-> bs[i].year, status |-> bs[i].status]]

Ids(bs) == {bs[i].id : i \in 1..Len(bs)}

Mutating == {"add_book", "remove_book", "update_status"}

\* C1: saving the collection and loading it back yields the same records in
\* the same order with the same field values, status included.
C1_RoundTrip == load_data(save_data(books)) = books

\* C2: after every completed mutating operation the file holds the
\* serialization of the whole in-memory collection in its current order, and
\* a completed mutating operation has written the file.
C2_FileMatchesMemory ==
    (out.op \in Mutating /\ out.res = "ok") =>
        (out.saved /\ file = Serialization(books))

C2_Witness ==
    /\ out.op = "update_status"
    /\ out.res = "ok"
    /\ Len(books) = 2
    /\ books[2].status = CheckedOut
    /\ file = Serialization(books)

\* C3: no two records of the in-memory collection have the same id, and
\* every id is a positive integer.
C3_IdsUniquePositive ==
    /\ \A i, j \in 1..Len(books) : i # j => books[i].id # books[j].id
    /\ \A i \in 1..Len(books) : books[i].id \in Nat /\ books[i].id >= 1

C3_Witness ==
    /\ out.op = "add_book"
    /\ out.res = "ok"
    /\ prev # <<>>
    /\ Len(books) = 2
    /\ Ids(books) = {2, 3}

\* the id the claim expects of Add: the greatest id of the catalog plus one,
\* 1 for the empty catalog
ExpectedId(bs) ==
    IF Ids(bs) = {} THEN 1
    ELSE (CHOOSE m \in Ids(bs) : \A x \in Ids(bs) : x <= m) + 1

\* what Add does to the collection: the new record has the expected id and
\* status Available and is appended at the end; a catalog holding 1..N gets
\* N+1; an Add right after the removal of a non-maximum id does not get
\* that id
AddAppends ==
    /\ out'.id = ExpectedId(books)
    /\ Len(books') = Len(books) + 1
    /\ SubSeq(books', 1, Len(books)) = books
    /\ books'[Len(books')].id = out'.id
    /\ books'[Len(books')].status = Available
    /\ (Ids(books) = 1..Len(books) => out'.id = Len(books) + 1)
    /\ (prev' # <<>> /\ ~prev'[2] => out'.id # prev'[1])

\* C4 as stated: Add assigns max(ids)+1 (1 in the empty catalog) and appends
\* the record at the end with status Available; N Adds from the empty
\* catalog assign 1..N; an Add right after the removal of the maximum id
\* gets that id again, and an Add right after the removal of another id does
\* not get that id.
C4_AddReusesFreedMaxId ==
    [][out'.op = "add_book" =>
        /\ AddAppends
        /\ (prev' # <<>> /\ prev'[2] => out'.id = prev'[1])]_vars

\* C4 as amended: as above, except that an Add right after the removal of
\* the maximum id gets an id that is at most the freed one, and gets the
\* freed id again exactly when the greatest remaining id is the freed id
\* minus one (or the freed id was 1 and the catalog is empty).
C4_AddAssignsMaxPlusOne ==
    [][out'.op = "add_book" =>
        /\ AddAppends
        /\ (prev' # <<>> /\ prev'[2] =>
              /\ out'.id <= prev'[1]
              /\ (out'.id = prev'[1]) <=>
                    (prev'[1] = 1 \/ (prev'[1] - 1) \in Ids(books)))]_vars

C4_Witness ==
    /\ out.op = "add_book"
    /\ out.res = "ok"
    /\ prev = <<3, TRUE>>
    /\ out.id = 3
    /\ Ids(books) = {1, 2, 3}
    /\ books[3].status = Available

\* C5: Remove of an id that matches no record reports NotFound, leaves the
\* collection as it was and does not write the file; Remove of a matching id
\* removes exactly that record and keeps the others in their order.
C5_RemoveFrame ==
    [][out'.op = "remove_book" =>
        IF out'.id \in Ids(books)
        THEN /\ books' = SelectSeq(books, LAMBDA b : b.id # out'.id)
             /\ Len(books') = Len(books) - 1
        ELSE /\ out'.res = "NotFound"
             /\ books' = books
             /\ file' = file
             /\ ~out'.saved]_vars

C5_Witness ==
    /\ out.op = "remove_book"
    /\ out.res = "NotFound"
    /\ Len(books) = 2
    /\ \E i \in 1..2 : books[i].status = CheckedOut

StatusesValid ==
    /\ \A i \in 1..Len(books) : books[i].status \in {Available, CheckedOut}
    /\ \A i \in 1..Len(file) : file[i].status \in {Available, CheckedOut}

InvalidStatusStep == out'.op = "update_status" /\ out'.arg \notin {Available, CheckedOut}

NoMutation == books' = books /\ file' = file /\ ~out'.saved

\* C6 as stated: UpdateStatus with a status outside the two defined values
\* fails with InvalidInput and changes nothing, for every id.
C6_InvalidStatusAlwaysInvalidInput ==
    [][InvalidStatusStep => (out'.res = "InvalidInput" /\ NoMutation)]_vars

\* C6 as amended: UpdateStatus with a status outside the two defined values
\* changes nothing and does not write the file, for every id; it reports
\* InvalidInput when the id matches a record and NotFound when it matches
\* none; the status held in memory and in the file is always one of the two
\* defined values.
C6_InvalidStatusNoMutation ==
    /\ [][InvalidStatusStep =>
            /\ NoMutation
            /\ out'.res = IF out'.id \in Ids(books) THEN "InvalidInput"
                          ELSE "NotFound"]_vars
    /\ []StatusesValid

C6_Witness ==
    /\ out.op = "update_status"
    /\ out.arg = "lost"
    /\ out.res = "InvalidInput"
    /\ \E i \in 1..Len(books) : books[i].id = out.id /\ books[i].status = CheckedOut

ValidRecord(r) == r.title # <<>> /\ r.author # <<>> /\ r.year >= 0

\* C7: no record with an empty title, an empty author or a negative year is
\* ever in the collection or in the file (looked at after the operations
\* whose save did not fail).
C7_NoInvalidRecord ==
    out.res # "StorageUnavailable" =>
        /\ \A i \in 1..Len(books) : ValidRecord(books[i])
        /\ \A i \in 1..Len(file) : ValidRecord(file[i])

\* C8: after an operation whose Save() failed, the in-memory collection
\* equals the content of the file.
C8_FailedSaveNotCommitted ==
    out.res = "StorageUnavailable" => file = Serialization(books)

\* the case-insensitive containment the claim speaks of
ContainsNoCase(sub, s) ==
    \E k \in 0..(Len(s) - Len(sub)) :
        \A j \in 1..Len(sub) : LowerChar(s[k + j]) = LowerChar(sub[j])

ClaimedText(book, field) ==
    CASE field = "title" -> book.title
      [] field = "author" -> book.author
      [] field = "year" -> IntToStr(book.year)

\* C9: Search returns, in catalog order, the records whose title, author or
\* year contains the query case-insensitively, and the empty sequence for
\* every other field name and every query.
C9_SearchResult ==
    out.op = "search_books" =>
        results = IF out.field \in {"title", "author", "year"}
                  THEN SelectSeq(books,
                          LAMBDA b : ContainsNoCase(out.query,
                                                    ClaimedText(b, out.field)))
                  ELSE <<>>

\* C10: a non-numeric ID typed for Remove or UpdateStatus is rejected in the
\* shell: no store operation is invoked, and the menu loop goes on.
C10_NonNumericIdRejected ==
    (cmd.choice \in {"2", "5"} /\ ~cmd.numeric) =>
        (out.op = "none" /\ pc = "menu")

====
